---- MODULE Spec2Model ----
(***************************************************************************)
(* A model of snowflake-ingest-node: createSnowpipeAPI and the closures it *)
(* returns (getBearerToken, makeRequest, insertFile, insertReport,         *)
(* loadHistoryScan), together with the events the https transport can      *)
(* deliver to the handlers makeRequest registers.                          *)
(*                                                                         *)
(* JavaScript runs every handler to completion, and the continuation of an *)
(* `await` on a settled promise runs as a microtask before the next I/O    *)
(* event: each action below is one such run-to-completion step.            *)
(*                                                                         *)
(* An optional JavaScript value (undefined / null, or a value v) is        *)
(* modelled as the sequence <<>> or <<v>>.                                 *)
(***************************************************************************)
EXTENDS Integers, Sequences, FiniteSets, TLC

VARIABLES
    snowpipeAPIOptions, \* the optional SnowpipeAPIOptions argument
    domainParts,        \* [account, regionId, cloudProvider]
    config,             \* { username, privateKey, account, hostname }
    apiEndpointHistory, \* one RecordedCall[] per endpoint
    now,                \* the wall clock, in milliseconds
    pc,                 \* per call: where the async operation stands
    frame,              \* per call: the locals of the endpoint operation
    options,            \* per call: the https.RequestOptions object it built
    req,                \* per call: the ClientRequest / IncomingMessage, and
                        \*   how often https.request was called for the call
    promise,            \* per call: the promise makeRequest returned
    result              \* per call: what the caller's await received

vars == <<snowpipeAPIOptions, domainParts, config, apiEndpointHistory, now, pc, frame,
          options, req, promise, result>>

-----------------------------------------------------------------------------
(* Bounds of the model *)

MaxCalls == 2
MaxChunks == 2
MaxNow == 1000

CallIds == 1..MaxCalls
ClockSteps == {0, 500}
Chunks == {"{", "}"}
TransportErrors == {"ECONNRESET", "ENOTFOUND"}
RequestIds == {"000102030405060708090a0b0c0d0e0f"}
PrivateKeys == {"validKey", "malformedKey"}

-----------------------------------------------------------------------------
(* Optional values *)

Undefined == <<>>
Some(v) == <<v>>
IsDefined(o) == o # <<>>
Val(o) == o[1]

-----------------------------------------------------------------------------
(* Program constants *)

USER_AGENT == "snowpipe-ingest-node/0.0.1/node/npm"
Endpoints == {"insertFile", "insertReport", "loadHistoryScan"}
HttpsPort == 443
TokenLifetime == 60 * 59
StatusUndefined == 0 - 1
StatusCodes == {199, 200, 299, 300, 403}

-----------------------------------------------------------------------------
(* Library functions the program calls *)

\* Array.prototype.join
RECURSIVE Join(_, _)
Join(parts, sep) ==
    IF Len(parts) = 0 THEN ""
    ELSE IF Len(parts) = 1 THEN parts[1]
    ELSE parts[1] \o sep \o Join(Tail(parts), sep)

\* Math.round(ms / 1000 + addSeconds), for ms >= 0: round half up
MathRoundSeconds(ms, addSeconds) == (ms + addSeconds * 1000 + 500) \div 1000

\* String.prototype.toUpperCase, on the names the model draws
ToUpperCase(s) ==
    CASE s = "acme" -> "ACME"
      [] s = "loader" -> "LOADER"
      [] OTHER -> s

\* crypto.createPublicKey(privateKey): throws unless the key parses
KeyParses(privateKey) == privateKey = "validKey"

\* 'SHA256:' + base64(sha256(spki(publicKey)))
Fingerprint(privateKey) == "SHA256:" \o "fp(" \o privateKey \o ")"

\* jwt.encode(payload, privateKey, 'RS256'): the signed claim set
JwtEncode(payload, privateKey) ==
    [alg |-> "RS256", payload |-> payload, signedWith |-> privateKey]

\* JSON.parse on the bodies the model's chunks can form: <<>> when it throws
JSONParse(text) ==
    CASE text = "{}" -> Some([kind |-> "object", members |-> <<>>])
      [] OTHER -> Undefined

\* The bytes req.write(chunk) puts on the wire for a string chunk: its UTF-8
\* encoding, two bytes for the accented letter the model draws and one for
\* each ASCII character
Utf8Bytes(ch) == IF ch = "é" THEN 2 ELSE 1

RECURSIVE Utf8LengthFrom(_, _)
Utf8LengthFrom(s, i) ==
    IF i > Len(s) THEN 0
    ELSE Utf8Bytes(SubSeq(s, i, i)) + Utf8LengthFrom(s, i + 1)

Utf8Length(s) == Utf8LengthFrom(s, 1)

\* JSON.stringify of a string: quoted, with quotes and backslashes escaped
JSONEscape(ch) ==
    CASE ch = "\"" -> "\\\""
      [] ch = "\\" -> "\\\\"
      [] OTHER -> ch

RECURSIVE JSONQuoteFrom(_, _)
JSONQuoteFrom(s, i) ==
    IF i > Len(s) THEN "\""
    ELSE JSONEscape(SubSeq(s, i, i)) \o JSONQuoteFrom(s, i + 1)

JSONQuote(s) == "\"" \o JSONQuoteFrom(s, 1)

\* A promise settles once: resolve and reject on a settled promise do nothing
Pending == [state |-> "pending", value |-> <<>>]
Settle(p, state, value) ==
    IF p.state = "pending" THEN [state |-> state, value |-> Some(value)] ELSE p

-----------------------------------------------------------------------------
(* createSnowpipeAPI *)

\* domainParts.filter(p => p !== undefined)
RECURSIVE FilterDefined(_)
FilterDefined(parts) ==
    IF Len(parts) = 0 THEN <<>>
    ELSE IF IsDefined(Head(parts))
         THEN <<Val(Head(parts))>> \o FilterDefined(Tail(parts))
         ELSE FilterDefined(Tail(parts))

Hostname(account, regionId, cloudProvider) ==
    Join(FilterDefined(<<Some(account), regionId, cloudProvider>>), ".")
        \o ".snowflakecomputing.com"

NoFrame ==
    [endpoint |-> "", args |-> <<>>, endpointCallHistory |-> "", path |-> "",
     method |-> "", contentType |-> Undefined, postBody |-> Undefined, jwtToken |-> Undefined]

NoRequest ==
    [phase |-> "none", written |-> Undefined, statusCode |-> StatusUndefined,
     body |-> <<>>, ended |-> FALSE, error |-> Undefined, aborted |-> FALSE,
     completions |-> <<>>, issued |-> 0]

CreateSnowpipeAPI(username, privateKey, account, regionId, cloudProvider, opts) ==
    /\ snowpipeAPIOptions = opts
    /\ domainParts = <<Some(account), regionId, cloudProvider>>
    /\ apiEndpointHistory = [e \in Endpoints |-> <<>>]
    /\ config = [username |-> ToUpperCase(username),
                 privateKey |-> privateKey,
                 account |-> ToUpperCase(account),
                 hostname |-> Hostname(account, regionId, cloudProvider)]
    /\ now = 0
    /\ pc = [c \in CallIds |-> "idle"]
    /\ frame = [c \in CallIds |-> NoFrame]
    /\ options = [c \in CallIds |-> Undefined]
    /\ req = [c \in CallIds |-> NoRequest]
    /\ promise = [c \in CallIds |-> Pending]
    /\ result = [c \in CallIds |-> Pending]

OptionsArgs ==
    {Undefined, Some([recordHistory |-> TRUE]), Some([recordHistory |-> FALSE])}

Init ==
    \E privateKey \in PrivateKeys, opts \in OptionsArgs :
        CreateSnowpipeAPI("loader", privateKey, "acme", Undefined, Undefined, opts)

\* RecordHistory testing only that the options are present
RecordHistory_Truthy == IsDefined(snowpipeAPIOptions)

\* snowpipeAPIOptions?.recordHistory === true
RecordHistory ==
    IsDefined(snowpipeAPIOptions) /\ Val(snowpipeAPIOptions).recordHistory = TRUE

-----------------------------------------------------------------------------
(* getBearerToken: <<>> when createPublicKey or jwt.encode throws.  The clock *)
(* is read twice, at t1 for 'iat' and at t2 >= t1 for 'exp'.                  *)

KeyError ==
    [message |-> "error:0909006C:PEM routines:get_name:no start line",
     code |-> Some("ERR_OSSL_PEM_NO_START_LINE")]

GetBearerToken(t1, t2) ==
    IF ~KeyParses(config.privateKey) THEN Undefined
    ELSE Some(JwtEncode(
            [iss |-> config.account \o "." \o config.username \o "."
                        \o Fingerprint(config.privateKey),
             sub |-> config.account \o "." \o config.username,
             iat |-> MathRoundSeconds(t1, 0),
             exp |-> MathRoundSeconds(t2, TokenLifetime)],
            config.privateKey))

\* The synchronous start of an endpoint operation: the path and body are built,
\* getBearerToken runs, and the operation suspends on `await`.
Suspend(c, fr, d1, d2) ==
    /\ pc[c] = "idle"
    /\ IF c = 1 THEN TRUE ELSE pc[c - 1] # "idle"
    /\ IF KeyParses(config.privateKey)
       THEN /\ now + d1 + d2 <= MaxNow
            /\ now' = now + d1 + d2
       ELSE /\ d1 = 0 /\ d2 = 0
            /\ UNCHANGED now
    /\ frame' = [frame EXCEPT ![c] =
                    [fr EXCEPT !.jwtToken = GetBearerToken(now + d1, now + d1 + d2)]]
    /\ pc' = [pc EXCEPT ![c] = "awaitToken"]
    /\ UNCHANGED <<snowpipeAPIOptions, domainParts, config, apiEndpointHistory, options, req,
                   promise, result>>

-----------------------------------------------------------------------------
(* The three endpoint operations, up to `await getBearerToken()` *)

\* JSON.stringify({ files: filenames.map(filename => ({ path: filename })) })
RECURSIVE PathObjects(_)
PathObjects(filenames) ==
    IF Len(filenames) = 0 THEN <<>>
    ELSE <<"{\"path\":" \o JSONQuote(Head(filenames)) \o "}">>
            \o PathObjects(Tail(filenames))

StringifyFiles(filenames) ==
    "{\"files\":[" \o Join(PathObjects(filenames), ",") \o "]}"

insertFile(c, pipeName, filenames, postJSON, requestId, d1, d2) ==
    Suspend(c,
        [endpoint |-> "insertFile",
         args |-> <<pipeName, filenames, postJSON>>,
         endpointCallHistory |-> "insertFile",
         path |-> "/v1/data/pipes/" \o pipeName \o "/insertFiles?requestId=" \o requestId,
         method |-> "POST",
         contentType |-> Some(IF postJSON THEN "application/json" ELSE "text/plain"),
         postBody |-> Some(IF postJSON THEN StringifyFiles(filenames)
                                       ELSE Join(filenames, "\n")),
         jwtToken |-> Undefined],
        d1, d2)

\* Truthy testing only that the value is not undefined
Truthy_DefinedOnly(o) == IsDefined(o)

\* `if (beginMark)`: undefined and the empty string are both falsy
Truthy(o) == IsDefined(o) /\ Val(o) # ""

\* insertReport handing makeRequest the slice of insertFile
insertReport_WrongSlice(c, pipeName, beginMark, requestId, d1, d2) ==
    Suspend(c,
        [endpoint |-> "insertReport",
         args |-> <<pipeName, beginMark>>,
         endpointCallHistory |-> "insertFile",
         path |-> "/v1/data/pipes/" \o pipeName \o "/insertReport?requestId=" \o requestId
                    \o (IF Truthy(beginMark) THEN "&beginMark=" \o Val(beginMark) ELSE ""),
         method |-> "GET",
         contentType |-> Undefined,
         postBody |-> Undefined,
         jwtToken |-> Undefined],
        d1, d2)

insertReport(c, pipeName, beginMark, requestId, d1, d2) ==
    Suspend(c,
        [endpoint |-> "insertReport",
         args |-> <<pipeName, beginMark>>,
         endpointCallHistory |-> "insertReport",
         path |-> "/v1/data/pipes/" \o pipeName \o "/insertReport?requestId=" \o requestId
                    \o (IF Truthy(beginMark) THEN "&beginMark=" \o Val(beginMark) ELSE ""),
         method |-> "GET",
         contentType |-> Undefined,
         postBody |-> Undefined,
         jwtToken |-> Undefined],
        d1, d2)

loadHistoryScan(c, pipeName, startTimeInclusive, endTimeExclusive, requestId, d1, d2) ==
    Suspend(c,
        [endpoint |-> "loadHistoryScan",
         args |-> <<pipeName, startTimeInclusive, endTimeExclusive>>,
         endpointCallHistory |-> "loadHistoryScan",
         path |-> "/v1/data/pipes/" \o pipeName \o "/loadHistoryScan?startTimeInclusive="
                    \o startTimeInclusive \o "&requestId=" \o requestId
                    \o (IF Truthy(endTimeExclusive)
                        THEN "&endTimeExclusive=" \o Val(endTimeExclusive) ELSE ""),
         method |-> "GET",
         contentType |-> Undefined,
         postBody |-> Undefined,
         jwtToken |-> Undefined],
        d1, d2)

-----------------------------------------------------------------------------
(* The continuation of `await getBearerToken()`: the request options are      *)
(* built and makeRequest issues the request, or the operation fails with the  *)
(* error getBearerToken threw.                                                *)

Headers(fr) ==
    (IF fr.endpoint = "insertFile"
     THEN ("Content-Type" :> Val(fr.contentType))
            @@ ("Content-Length" :> Len(Val(fr.postBody)))
     ELSE <<>>)
    @@ ("Authorization" :> [scheme |-> "Bearer", credentials |-> Val(fr.jwtToken)])
    @@ ("User-Agent" :> USER_AGENT)
    @@ ("Accept" :> "application/json")

\* RequestOptions reusing the token the first call minted
RequestOptions_FirstToken(fr) ==
    [hostname |-> config.hostname,
     port |-> HttpsPort,
     path |-> fr.path,
     method |-> fr.method,
     headers |-> Headers([fr EXCEPT !.jwtToken = frame[1].jwtToken])]

\* lines 359-370, 382-393, 405-416
RequestOptions(fr) ==
    [hostname |-> config.hostname,
     port |-> HttpsPort,
     path |-> fr.path,
     method |-> fr.method,
     headers |-> Headers(fr)]

\* `if (postBody) { req.write(postBody) }`, then req.end(): a string chunk
\* goes out in its UTF-8 encoding; nothing is written for an empty body
Written(postBody) ==
    IF Truthy(postBody)
    THEN Some([chunk |-> Val(postBody), byteLength |-> Utf8Length(Val(postBody))])
    ELSE Undefined

Resume(c) ==
    /\ pc[c] = "awaitToken"
    /\ IF IsDefined(frame[c].jwtToken)
       THEN /\ options' = [options EXCEPT ![c] = Some(RequestOptions(frame[c]))]
            /\ req' = [req EXCEPT ![c] =
                        [NoRequest EXCEPT !.phase = "sent",
                                          !.written = Written(frame[c].postBody),
                                          !.issued = req[c].issued + 1]]
            /\ pc' = [pc EXCEPT ![c] = "awaitRequest"]
            /\ UNCHANGED result
       ELSE /\ pc' = [pc EXCEPT ![c] = "returned"]
            /\ result' = [result EXCEPT ![c] = Settle(Pending, "rejected", KeyError)]
            /\ UNCHANGED <<options, req>>
    /\ UNCHANGED <<snowpipeAPIOptions, domainParts, config, apiEndpointHistory, now, frame, promise>>

-----------------------------------------------------------------------------
(* makeRequest: the handlers of the response and of the request *)

\* Push recording no reference to the options object
Push_Detached(c, response) ==
    IF RecordHistory
    THEN [apiEndpointHistory EXCEPT ![frame[c].endpointCallHistory] =
            Append(@, [request |-> 0, response |-> response])]
    ELSE apiEndpointHistory

\* endpointCallHistory.push(record), when recording is on.  The record holds
\* the options object itself, by reference: `request |-> c` is the reference to
\* options[c].
Push(c, response) ==
    IF RecordHistory
    THEN [apiEndpointHistory EXCEPT ![frame[c].endpointCallHistory] =
            Append(@, [request |-> c, response |-> response])]
    ELSE apiEndpointHistory

\* The microtasks that follow a handler: once makeRequest's promise is
\* settled, `return await makeRequest(...)` hands its outcome to the caller.
Deliver(c, p) ==
    /\ promise' = [promise EXCEPT ![c] = p]
    /\ IF pc[c] = "awaitRequest" /\ p.state # "pending"
       THEN /\ pc' = [pc EXCEPT ![c] = "returned"]
            /\ result' = [result EXCEPT ![c] = p]
       ELSE UNCHANGED <<pc, result>>

\* The callback of https.request: the response's headers have arrived
OnResponse(c, statusCode) ==
    /\ req[c].phase = "sent"
    /\ ~IsDefined(req[c].error)
    /\ req' = [req EXCEPT ![c].phase = "response", ![c].statusCode = statusCode]
    /\ UNCHANGED <<snowpipeAPIOptions, domainParts, config, apiEndpointHistory, now, pc, frame,
                   options, promise, result>>

\* response.on('data')
OnData(c, chunk) ==
    /\ req[c].phase = "response"
    /\ ~req[c].ended /\ ~req[c].aborted
    /\ Len(req[c].body) < MaxChunks
    /\ req' = [req EXCEPT ![c].body = Append(@, chunk)]
    /\ UNCHANGED <<snowpipeAPIOptions, domainParts, config, apiEndpointHistory, now, pc, frame,
                   options, promise, result>>

HttpError(statusCode, messageBody) ==
    [message |-> "status code: " \o ToString(statusCode) \o ".  '" \o messageBody \o "'",
     code |-> Undefined]

\* IsHttpFailure with the lower bound off by one: 200 counts as a failure
IsHttpFailure_OffByOne(statusCode) ==
    statusCode # StatusUndefined /\ (statusCode <= 200 \/ statusCode > 299)

\* line 296
IsHttpFailure(statusCode) ==
    statusCode # StatusUndefined /\ (statusCode < 200 \/ statusCode > 299)

\* OnEndHistory with the push moved into the success branch
OnEndHistory_SuccessOnly(c, statusCode, messageBody) ==
    IF IsHttpFailure(statusCode) THEN apiEndpointHistory
    ELSE Push(c, [statusCode |-> statusCode, messageBody |-> messageBody])

\* lines 286-294: the record of a completed response
OnEndHistory(c, statusCode, messageBody) ==
    Push(c, [statusCode |-> statusCode, messageBody |-> messageBody])

\* OnEndOutcome without the catch around JSON.parse
OnEndOutcome_ParseThrows(p, statusCode, messageBody) ==
    IF IsHttpFailure(statusCode) \/ ~IsDefined(JSONParse(messageBody))
    THEN Settle(p, "rejected", HttpError(statusCode, messageBody))
    ELSE Settle(p, "fulfilled",
                [json |-> JSONParse(messageBody),
                 rawResponse |-> messageBody,
                 statusCode |-> statusCode])

\* lines 296-310: reject on a status outside 200..299, resolve otherwise; a
\* body JSON.parse throws on leaves json null
OnEndOutcome(p, statusCode, messageBody) ==
    IF IsHttpFailure(statusCode)
    THEN Settle(p, "rejected", HttpError(statusCode, messageBody))
    ELSE Settle(p, "fulfilled",
                [json |-> JSONParse(messageBody),
                 rawResponse |-> messageBody,
                 statusCode |-> statusCode])

\* response.on('end')
OnEnd(c) ==
    /\ req[c].phase = "response"
    /\ ~req[c].ended /\ ~req[c].aborted
    /\ LET messageBody == Join(req[c].body, "")
           statusCode == req[c].statusCode
       IN /\ apiEndpointHistory' = OnEndHistory(c, statusCode, messageBody)
          /\ Deliver(c, OnEndOutcome(promise[c], statusCode, messageBody))
    /\ req' = [req EXCEPT ![c].ended = TRUE, ![c].completions = Append(@, "end")]
    /\ UNCHANGED <<snowpipeAPIOptions, domainParts, config, now, frame, options>>

TransportError(code) == [message |-> code, code |-> Some(code)]

\* lines 316-323: the record of a transport error
OnErrorHistory(c, error) == Push(c, [error |-> error])

\* OnErrorOutcome rejecting with a new error instead of the transport's
OnErrorOutcome_Wrapped(p, error) ==
    Settle(p, "rejected", [message |-> "request failed", code |-> Undefined])

\* line 324: reject(error)
OnErrorOutcome(p, error) == Settle(p, "rejected", error)

\* OnError issuing the request again instead of failing the call
OnError_Retry(c, error) ==
    /\ req[c].phase \in {"sent", "response"}
    /\ ~IsDefined(req[c].error) /\ ~req[c].aborted
    /\ apiEndpointHistory' = OnErrorHistory(c, error)
    /\ IF req[c].phase = "response"
       THEN /\ Deliver(c, OnErrorOutcome(promise[c], error))
            /\ req' = [req EXCEPT ![c].error = Some(error),
                                  ![c].completions = Append(@, "error")]
       ELSE /\ req' = [req EXCEPT ![c] =
                        [NoRequest EXCEPT !.phase = "sent",
                                          !.written = Written(frame[c].postBody),
                                          !.issued = req[c].issued + 1]]
            /\ UNCHANGED <<pc, promise, result>>
    /\ UNCHANGED <<snowpipeAPIOptions, domainParts, config, now, frame, options>>

\* req.on('error')
OnError(c, error) ==
    /\ req[c].phase \in {"sent", "response"}
    /\ ~IsDefined(req[c].error) /\ ~req[c].aborted
    /\ apiEndpointHistory' = OnErrorHistory(c, error)
    /\ Deliver(c, OnErrorOutcome(promise[c], error))
    /\ req' = [req EXCEPT ![c].error = Some(error), ![c].completions = Append(@, "error")]
    /\ UNCHANGED <<snowpipeAPIOptions, domainParts, config, now, frame, options>>

\* The response is aborted after its headers: the socket closes before the
\* body is complete, the response emits 'aborted' and 'close', and neither
\* handler of makeRequest runs.
OnAborted(c) ==
    /\ req[c].phase = "response"
    /\ ~req[c].ended /\ ~req[c].aborted /\ ~IsDefined(req[c].error)
    /\ req' = [req EXCEPT ![c].aborted = TRUE]
    /\ UNCHANGED <<snowpipeAPIOptions, domainParts, config, apiEndpointHistory, now, pc, frame,
                   options, promise, result>>

-----------------------------------------------------------------------------
(* The calls the model makes and the events the transport delivers *)

PipeName == "myDatabase.mySchema.myPipe"
StartTime == "2020-10-14T02:00:00.000Z"
Filenames == {<<"a.csv", "b.csv">>}

InvokeWith(c, fileLists, jsonFlags, marks, requestIds, clockSteps) ==
    \E requestId \in requestIds, d1 \in clockSteps, d2 \in clockSteps :
        \/ \E filenames \in fileLists, postJSON \in jsonFlags :
             insertFile(c, PipeName, filenames, postJSON, requestId, d1, d2)
        \/ \E beginMark \in marks :
             insertReport(c, PipeName, beginMark, requestId, d1, d2)
        \/ \E endTimeExclusive \in marks :
             loadHistoryScan(c, PipeName, StartTime, endTimeExclusive,
                             requestId, d1, d2)

Invoke(c, jsonFlags, marks, requestIds, clockSteps) ==
    InvokeWith(c, Filenames, jsonFlags, marks, requestIds, clockSteps)

Transport(c, statusCodes, chunks, errorCodes) ==
    \/ \E statusCode \in statusCodes : OnResponse(c, statusCode)
    \/ \E chunk \in chunks : OnData(c, chunk)
    \/ OnEnd(c)
    \/ \E code \in errorCodes : OnError(c, TransportError(code))
    \/ OnAborted(c)

\* One call, with every status code, body and transport error of the model
Next ==
    \/ Invoke(1, BOOLEAN, {Undefined}, RequestIds, ClockSteps)
    \/ Resume(1)
    \/ Transport(1, StatusCodes, Chunks, TransportErrors)

Spec == Init /\ [][Next]_vars

\* One call on an event loop that runs what is ready and a transport that
\* goes on with an exchange as long as it has an event to deliver
NextFair ==
    \/ Invoke(1, BOOLEAN, {Undefined}, RequestIds, {0})
    \/ Resume(1)
    \/ Transport(1, {200, 403}, {"{}"}, {"ECONNRESET"})

Fairness ==
    /\ WF_vars(Resume(1))
    /\ WF_vars(Transport(1, {200, 403}, {"{}"}, {"ECONNRESET"}))

SpecFair == Init /\ [][NextFair]_vars /\ Fairness

\* Up to MaxCalls calls, sequential or overlapping, on a client that records
InitRecording ==
    CreateSnowpipeAPI("loader", "validKey", "acme", Undefined, Undefined,
                      Some([recordHistory |-> TRUE]))

NextConcurrent ==
    \E c \in CallIds :
        \/ Invoke(c, {FALSE}, {Undefined}, RequestIds, {0})
        \/ Resume(c)
        \/ Transport(c, {200, 403}, {"{}"}, {"ECONNRESET"})

SpecConcurrent == InitRecording /\ [][NextConcurrent]_vars

\* Sequential calls: the caller awaits each call before it makes the next
NextSequential ==
    \E c \in CallIds :
        \/ /\ \A d \in CallIds : d < c => pc[d] = "returned"
           /\ Invoke(c, {FALSE}, {Undefined}, RequestIds, {0})
        \/ Resume(c)
        \/ Transport(c, {200, 403}, {"{}"}, {"ECONNRESET"})

SpecSequential == InitRecording /\ [][NextSequential]_vars

\* Overlapping calls whose request identifiers and clock readings differ
OverlapRequestIds == RequestIds \cup {"f0e0d0c0b0a090807060504030201000"}

NextOverlap ==
    \E c \in CallIds :
        \/ Invoke(c, {FALSE}, {Undefined}, OverlapRequestIds, ClockSteps)
        \/ Resume(c)
        \/ Transport(c, {200}, {"{}"}, {"ECONNRESET"})

SpecOverlap == InitRecording /\ [][NextOverlap]_vars

\* Sequential calls on clients constructed with or without a region and a
\* cloud provider, each omitted, empty or named
RegionIds == {Undefined, Some(""), Some("us-central1")}
CloudProviders == {Undefined, Some(""), Some("gcp")}

InitHostname ==
    \E regionId \in RegionIds, cloudProvider \in CloudProviders :
        CreateSnowpipeAPI("loader", "validKey", "acme", regionId, cloudProvider,
                          Some([recordHistory |-> TRUE]))

SpecHostname == InitHostname /\ [][NextSequential]_vars

\* One call, with every shape of argument the request is built from: no file,
\* several files, names with a non-ASCII letter or a quote, either body
\* format, and the optional mark omitted, empty or given
FileLists == Filenames \cup {<<>>, <<"é.csv">>, <<"a\"b.csv", "c.csv">>}
Marks == {Undefined, Some(""), Some("mark123")}

NextBuild ==
    \/ InvokeWith(1, FileLists, BOOLEAN, Marks, RequestIds, {0})
    \/ Resume(1)
    \/ Transport(1, {200}, {"{}"}, {"ECONNRESET"})

SpecBuild == InitRecording /\ [][NextBuild]_vars

-----------------------------------------------------------------------------
(* What the claims speak of, stated on the state alone *)

\* The text the response delivered, chunk after chunk
RECURSIVE Received(_)
Received(chunks) ==
    IF chunks = <<>> THEN ""
    ELSE Received(SubSeq(chunks, 1, Len(chunks) - 1)) \o chunks[Len(chunks)]

RecordingOn == snowpipeAPIOptions = Some([recordHistory |-> TRUE])

ResponseCompleted(c) == req[c].ended /\ req[c].statusCode # StatusUndefined

Succeeded(c) == pc[c] = "returned" /\ result[c].state = "fulfilled"
Failed(c) == pc[c] = "returned" /\ result[c].state = "rejected"

SucceededWith(c, statusCode, body) ==
    /\ Succeeded(c)
    /\ Val(result[c].value).statusCode = statusCode
    /\ Val(result[c].value).rawResponse = body

FailedWithHttpError(c, statusCode, body) ==
    /\ Failed(c)
    /\ Val(result[c].value).message =
            "status code: " \o ToString(statusCode) \o ".  '" \o body \o "'"

FailedWithError(c, error) == Failed(c) /\ Val(result[c].value) = error

Classified(c) ==
    IF req[c].statusCode \in 200..299
    THEN SucceededWith(c, req[c].statusCode, Received(req[c].body))
    ELSE FailedWithHttpError(c, req[c].statusCode, Received(req[c].body))

\* The entries of an endpoint's slice that record call c
EntriesOf(c, endpoint) ==
    {i \in DOMAIN apiEndpointHistory[endpoint] :
        apiEndpointHistory[endpoint][i].request = c}

-----------------------------------------------------------------------------
(* C1 *)

\* C1 as stated: every call whose response completed with status code s and
\* body b succeeded with s and b when 200 <= s <= 299, and failed with the
\* HTTP error of s and b otherwise.
C1_CompletedResponseDecides ==
    \A c \in CallIds : ResponseCompleted(c) => Classified(c)

\* C1, amended: a completed response decides the call as stated when its end is
\* the request's first completion event; when a transport error was reported
\* before the response ended, the call has failed with that error and stays so.
C1_FirstCompletionDecides ==
    \A c \in CallIds :
        ResponseCompleted(c) =>
            IF Head(req[c].completions) = "end"
            THEN Classified(c)
            ELSE FailedWithError(c, Val(req[c].error))

C1_Witness ==
    \E c \in CallIds :
        /\ req[c].completions = <<"end">>
        /\ req[c].statusCode = 299
        /\ req[c].body = <<"}", "{">>
        /\ SucceededWith(c, 299, "}{")

-----------------------------------------------------------------------------
(* C2 *)

-----------------------------------------------------------------------------
(* C3 *)

\* C3 as stated: once the transport has reported an error on a call's request,
\* the call has failed with exactly that error, and with recording on the
\* endpoint's slice holds the entry of that error.
C3_TransportErrorFailsCall ==
    \A c \in CallIds :
        IsDefined(req[c].error) =>
            /\ FailedWithError(c, Val(req[c].error))
            /\ RecordingOn =>
                 \E i \in EntriesOf(c, frame[c].endpoint) :
                    apiEndpointHistory[frame[c].endpoint][i].response
                        = [error |-> Val(req[c].error)]

\* C3, amended: a transport error reported before the response has ended fails
\* the call with exactly that error; one reported after the response has ended
\* leaves the outcome the response decided.  Either way, with recording on,
\* exactly one entry {request, response: {error}} is appended to the slice of
\* the endpoint that was called, and nothing is recorded with recording off.
C3_TransportErrorHandled ==
    [][\A c \in CallIds :
        (~IsDefined(req[c].error) /\ IsDefined(req'[c].error))
        => /\ IF req[c].ended
              THEN result'[c] = result[c] /\ pc'[c] = pc[c]
              ELSE /\ pc'[c] = "returned"
                   /\ result'[c] = [state |-> "rejected", value |-> req'[c].error]
           /\ apiEndpointHistory' =
                IF RecordingOn
                THEN [apiEndpointHistory EXCEPT ![frame[c].endpoint] =
                        Append(@, [request |-> c,
                                   response |-> [error |-> Val(req'[c].error)]])]
                ELSE apiEndpointHistory
      ]_vars

C3_Witness ==
    \E c \in CallIds :
        /\ RecordingOn
        /\ req[c].phase = "response" /\ ~req[c].ended
        /\ FailedWithError(c, [message |-> "ENOTFOUND", code |-> Some("ENOTFOUND")])
        /\ apiEndpointHistory[frame[c].endpoint] =
                <<[request |-> c,
                   response |-> [error |-> [message |-> "ENOTFOUND",
                                            code |-> Some("ENOTFOUND")]]]>>

-----------------------------------------------------------------------------
(* C4 *)

\* C4 as stated: with recording on, every call that has returned to its caller,
\* with whatever outcome, has an entry in its endpoint's slice.
C4_EveryReturnedCallRecorded ==
    RecordingOn =>
        \A c \in CallIds :
            pc[c] = "returned" => EntriesOf(c, frame[c].endpoint) # {}

-----------------------------------------------------------------------------
(* C5 *)

\* The append-only half of C5: in every step every slice stays the same or
\* gains entries at its end.
C5_AppendOnly ==
    [][\A e \in Endpoints :
        /\ Len(apiEndpointHistory'[e]) >= Len(apiEndpointHistory[e])
        /\ SubSeq(apiEndpointHistory'[e], 1, Len(apiEndpointHistory[e]))
                = apiEndpointHistory[e]
      ]_vars

\* C5 as stated, its second half: after N sequential invocations of one
\* endpoint, all returned, the k-th entry of the endpoint's slice is the record
\* of the k-th invocation, for every k up to N.
C5_KthEntryIsKthInvocation ==
    \A e \in Endpoints, n \in CallIds :
        (\A c \in 1..n : pc[c] = "returned" /\ frame[c].endpoint = e)
        => \A k \in 1..n :
              /\ Len(apiEndpointHistory[e]) >= k
              /\ apiEndpointHistory[e][k].request = k

-----------------------------------------------------------------------------
(* C6 *)

\* C6: on a client constructed with the options absent or with recordHistory
\* false, all three slices are empty in every reachable state.
C6_NothingRecordedWhenOff ==
    (snowpipeAPIOptions = Undefined
        \/ snowpipeAPIOptions = Some([recordHistory |-> FALSE]))
    => \A e \in Endpoints : apiEndpointHistory[e] = <<>>

C6_Witness ==
    /\ snowpipeAPIOptions = Some([recordHistory |-> FALSE])
    /\ \E c \in CallIds :
        /\ req[c].completions = <<"end", "error">>
        /\ FailedWithHttpError(c, 403, "{}")
    /\ \A e \in Endpoints : apiEndpointHistory[e] = <<>>

-----------------------------------------------------------------------------
(* C7 *)

\* What a call's entry must hold to be intact: the call's own request and the
\* response or the error its request received
Intact(c, entry) ==
    /\ entry.request = c
    /\ \/ /\ req[c].ended
          /\ entry.response = [statusCode |-> req[c].statusCode,
                               messageBody |-> Received(req[c].body)]
       \/ /\ IsDefined(req[c].error)
          /\ entry.response = [error |-> Val(req[c].error)]

\* C7 as stated: once all the calls made have completed, each slice holds
\* exactly one intact entry for each completed call that records into it.
C7_OneEntryPerCompletedCall ==
    (\A c \in CallIds : pc[c] \in {"idle", "returned"})
    => \A c \in CallIds :
          pc[c] = "returned" =>
            LET slice == apiEndpointHistory[frame[c].endpoint]
            IN /\ Cardinality(EntriesOf(c, frame[c].endpoint)) = 1
               /\ \A i \in EntriesOf(c, frame[c].endpoint) : Intact(c, slice[i])

\* The part of C7 that holds of concurrent appends: no entry is lost or corrupted.  Every
\* completion event a call's handlers have run has its own intact entry, in
\* the order the events arrived, whatever the other calls did meanwhile.
C7_NoAppendLost ==
    \A c \in CallIds :
        LET slice == apiEndpointHistory[frame[c].endpointCallHistory]
        IN  pc[c] \in {"awaitRequest", "returned"} =>
              /\ Cardinality(EntriesOf(c, frame[c].endpoint)) = Len(req[c].completions)
              /\ \A i \in EntriesOf(c, frame[c].endpoint) : Intact(c, slice[i])

-----------------------------------------------------------------------------
(* C8 *)

\* The only text the model's chunks can form that is valid JSON
ValidJSON(text) == text = "{}"

Undecodable(c) ==
    /\ req[c].ended
    /\ req[c].statusCode \in 200..299
    /\ ~ValidJSON(Received(req[c].body))

SucceededWithoutPayload(c) ==
    /\ SucceededWith(c, req[c].statusCode, Received(req[c].body))
    /\ Val(result[c].value).json = Undefined

\* C8 as stated: a completed 2xx response whose body is not valid JSON leaves
\* the call succeeded, with a null payload, the received body and status code.
C8_DecodeFailureSucceeds ==
    \A c \in CallIds : Undecodable(c) => SucceededWithoutPayload(c)

\* C8, amended: such a response never fails the call.  When its end is the
\* request's first completion event the call succeeds with a null payload, the
\* received body and the received status code; when a transport error was
\* reported first, the call has failed with that transport error.
C8_DecodeFailureNeverFails ==
    \A c \in CallIds :
        Undecodable(c) =>
            IF Head(req[c].completions) = "end"
            THEN SucceededWithoutPayload(c)
            ELSE FailedWithError(c, Val(req[c].error))

C8_Witness ==
    \E c \in CallIds :
        /\ req[c].completions = <<"end">>
        /\ req[c].statusCode = 200
        /\ req[c].body = <<"{">>
        /\ result[c] = [state |-> "fulfilled",
                        value |-> Some([json |-> Undefined, rawResponse |-> "{",
                                        statusCode |-> 200])]

-----------------------------------------------------------------------------
(* C9 *)

\* C9 as stated: every minted token's exp claim is its iat claim plus 3540.
C9_ExpiryIs3540 ==
    \A c \in CallIds :
        IsDefined(frame[c].jwtToken) =>
            Val(frame[c].jwtToken).payload.exp
                - Val(frame[c].jwtToken).payload.iat = 3540

-----------------------------------------------------------------------------
(* C10 *)

ConfigFields == {"username", "privateKey", "account", "hostname"}

\* The ledger entries through which the token of call c can be read
HoldingToken(c) ==
    {<<e, i>> \in Endpoints \X (1..(2 * MaxCalls)) :
        /\ i <= Len(apiEndpointHistory[e])
        /\ apiEndpointHistory[e][i].request \in CallIds
        /\ IsDefined(options[apiEndpointHistory[e][i].request])
        /\ Val(options[apiEndpointHistory[e][i].request]).headers["Authorization"]
              = [scheme |-> "Bearer", credentials |-> Val(frame[c].jwtToken)]}

Minted(c) == pc[c] = "returned" /\ IsDefined(frame[c].jwtToken)

\* C10 as stated: after a call has completed, its token is held neither in the
\* configuration nor in the ledger, with recording on or off.
C10_NoTokenPersisted ==
    \A c \in CallIds :
        Minted(c) => DOMAIN config = ConfigFields /\ HoldingToken(c) = {}

\* C10, amended: the configuration never holds a token, and with recording off
\* the ledger holds none; with recording on, every entry of a completed call
\* holds the call's request options, whose Authorization header carries the
\* call's bearer token.
C10_TokenOnlyInLedger ==
    \A c \in CallIds :
        Minted(c) =>
            /\ DOMAIN config = ConfigFields
            /\ IF RecordingOn
               THEN /\ EntriesOf(c, frame[c].endpoint) # {}
                    /\ \A i \in EntriesOf(c, frame[c].endpoint) :
                          <<frame[c].endpoint, i>> \in HoldingToken(c)
               ELSE HoldingToken(c) = {}

C10_Witness ==
    \E c \in CallIds :
        /\ RecordingOn
        /\ Succeeded(c)
        /\ HoldingToken(c) = {<<frame[c].endpoint, 1>>}

-----------------------------------------------------------------------------
(* C11 *)

\* The paths the endpoint operations build round request identifier rid
CarriesRequestId(path, rid) ==
    path \in {"/v1/data/pipes/" \o PipeName \o "/insertFiles?requestId=" \o rid,
              "/v1/data/pipes/" \o PipeName \o "/insertReport?requestId=" \o rid,
              "/v1/data/pipes/" \o PipeName \o "/loadHistoryScan?startTimeInclusive="
                    \o StartTime \o "&requestId=" \o rid}

Invoked(c) == pc[c] = "idle" /\ pc'[c] = "awaitToken"
Issued(c) == req[c].phase = "none" /\ req'[c].phase = "sent"

\* The seconds the clock can show between two instants, as Math.round reads them
SecondsBetween(t1, t2) == {(t + 500) \div 1000 : t \in t1..t2}

\* C11: the step that invokes a call generates the call's request identifier
\* and mints its token from the clock as read in that step, before any request
\* of the call exists; the step that issues the call's request puts exactly
\* that token in the Authorization header and exactly that path, with that
\* identifier, in the request; and no step of another call touches what the
\* call generated or the request it built.
C11_OwnTokenAndRequestId ==
    [][\A c \in CallIds :
        /\ Invoked(c) =>
              /\ \E rid \in OverlapRequestIds : CarriesRequestId(frame'[c].path, rid)
              /\ IsDefined(frame'[c].jwtToken)
              /\ Val(frame'[c].jwtToken).payload.iat \in SecondsBetween(now, now')
              /\ req'[c].phase = "none" /\ options'[c] = Undefined
        /\ Issued(c) =>
              /\ pc[c] = "awaitToken"
              /\ frame'[c] = frame[c]
              /\ Val(options'[c]).path = frame[c].path
              /\ Val(options'[c]).headers["Authorization"] =
                    [scheme |-> "Bearer", credentials |-> Val(frame[c].jwtToken)]
        /\ frame'[c] # frame[c] => Invoked(c)
        /\ options'[c] # options[c] => Issued(c)
      ]_vars

\* Two calls overlap, each with a request in flight that carries its own token
\* and its own request identifier, which differ from the other call's
C11_Witness ==
    /\ pc[1] = "awaitRequest" /\ pc[2] = "awaitRequest"
    /\ CarriesRequestId(Val(options[1]).path, "000102030405060708090a0b0c0d0e0f")
    /\ CarriesRequestId(Val(options[2]).path, "f0e0d0c0b0a090807060504030201000")
    /\ Val(options[1]).headers["Authorization"].credentials = Val(frame[1].jwtToken)
    /\ Val(options[2]).headers["Authorization"].credentials = Val(frame[2].jwtToken)
    /\ frame[1].jwtToken # frame[2].jwtToken

-----------------------------------------------------------------------------
(* C12 *)

\* A step in which https.request is called for call c
IssuesRequest(c) == req'[c].issued # req[c].issued

\* C12: a request of a call is issued only by the call's own continuation
\* after its token was minted, when the call has issued none so far, so that
\* no call ever issues more than one; a call that has issued its request never
\* gets back to having issued none, and a call that has returned, with
\* whatever outcome, stays returned and issues nothing more.
C12_AtMostOneRequest ==
    [][\A c \in CallIds :
        /\ IssuesRequest(c) =>
              /\ req[c].issued = 0 /\ req'[c].issued = 1
              /\ req[c].phase = "none" /\ pc[c] = "awaitToken"
        /\ req[c].phase # "none" => req'[c].phase # "none"
        /\ pc[c] = "returned" => pc'[c] = "returned" /\ ~IssuesRequest(c)
      ]_vars

\* A call has failed on a transport error and its one request is all there is
C12_Witness ==
    \E c \in CallIds :
        /\ Failed(c)
        /\ req[c].phase = "sent"
        /\ req[c].completions = <<"error">>
        /\ req[c].issued = 1
        /\ Val(result[c].value) = Val(req[c].error)

-----------------------------------------------------------------------------
(* C13 *)

\* The values among parts that are present and not empty, in their order
RECURSIVE NonEmptyValues(_)
NonEmptyValues(parts) ==
    IF parts = <<>> THEN <<>>
    ELSE (IF Head(parts) = Undefined \/ Head(parts) = Some("")
          THEN <<>> ELSE <<Val(Head(parts))>>)
         \o NonEmptyValues(Tail(parts))

\* The non-empty labels, each followed by a dot
RECURSIVE Dotted(_)
Dotted(labels) ==
    IF labels = <<>> THEN "" ELSE Head(labels) \o "." \o Dotted(Tail(labels))

\* C13 as stated: the client's hostname is the non-empty values among
\* [account, regionId, cloudProvider], in that order, joined with '.' and
\* followed by '.snowflakecomputing.com', and every request the client has
\* built, across any sequence of calls, has that hostname.
C13_HostnameOfNonEmptyParts ==
    /\ config.hostname = Dotted(NonEmptyValues(domainParts)) \o "snowflakecomputing.com"
    /\ \A c \in CallIds :
          IsDefined(options[c]) => Val(options[c]).hostname = config.hostname

\* What holds of the hostname: it is never recomputed, and every request built
\* has the hostname of the configuration.
C13_HostnameFixed ==
    [][/\ config' = config /\ domainParts' = domainParts
       /\ \A c \in CallIds :
            IsDefined(options'[c]) => Val(options'[c]).hostname = config.hostname
      ]_vars

-----------------------------------------------------------------------------
(* C14 *)

\* The calls to insertFile whose request has been issued
InsertFileIssued(c) == frame[c].endpoint = "insertFile" /\ IsDefined(options[c])

\* The text and the number of bytes written to the request of call c
BodyWritten(c) == IF IsDefined(req[c].written) THEN Val(req[c].written).chunk ELSE ""
BytesWritten(c) == IF IsDefined(req[c].written) THEN Val(req[c].written).byteLength ELSE 0

\* The names one per line, and the names as a JSON list of {path} objects
RECURSIVE Lines(_)
Lines(names) ==
    IF names = <<>> THEN ""
    ELSE IF Len(names) = 1 THEN names[1]
    ELSE Lines(SubSeq(names, 1, Len(names) - 1)) \o "\n" \o names[Len(names)]

RECURSIVE Listed(_)
Listed(names) ==
    IF names = <<>> THEN ""
    ELSE (IF Len(names) = 1 THEN ""
          ELSE Listed(SubSeq(names, 1, Len(names) - 1)) \o ",")
         \o "{\"path\":" \o JSONQuote(names[Len(names)]) \o "}"

\* What C14 says of the body and the Content-Type of call c
BodyAndTypeAsFlagged(c) ==
    LET filenames == frame[c].args[2]
        postJSON == frame[c].args[3]
        headers == Val(options[c]).headers
    IN  IF postJSON
        THEN /\ BodyWritten(c) = "{\"files\":[" \o Listed(filenames) \o "]}"
             /\ headers["Content-Type"] = "application/json"
        ELSE /\ BodyWritten(c) = Lines(filenames)
             /\ headers["Content-Type"] = "text/plain"

\* C14 as stated: for every issued insertFile request, with the JSON flag off
\* the body is the file names joined by newline and Content-Type is
\* text/plain, with the flag on the body is {"files":[{"path":...},...]} in
\* the order given and Content-Type is application/json, and in both modes
\* Content-Length is the length of the body written to the request.
C14_BodyTypeAndLength ==
    \A c \in CallIds :
        InsertFileIssued(c) =>
            /\ BodyAndTypeAsFlagged(c)
            /\ Val(options[c]).headers["Content-Length"] = BytesWritten(c)

\* What holds of every list of names: the body and the Content-Type are as
\* the flag says, and Content-Length is the number of UTF-16 code units of the
\* body, which is its length on the wire when all its characters are ASCII.
C14_BodyAndType ==
    \A c \in CallIds :
        InsertFileIssued(c) =>
            /\ BodyAndTypeAsFlagged(c)
            /\ Val(options[c]).headers["Content-Length"] = Len(BodyWritten(c))

-----------------------------------------------------------------------------
(* C15 *)

\* The path of an issued insertReport or loadHistoryScan request is the path
\* up to the request identifier followed by the given text
PathEndsWith(c, parameter) ==
    \E rid \in RequestIds :
        Val(options[c]).path =
            (IF frame[c].endpoint = "insertReport"
             THEN "/v1/data/pipes/" \o frame[c].args[1] \o "/insertReport?requestId=" \o rid
             ELSE "/v1/data/pipes/" \o frame[c].args[1]
                    \o "/loadHistoryScan?startTimeInclusive=" \o frame[c].args[2]
                    \o "&requestId=" \o rid)
            \o parameter

\* The optional argument of the call and the name of its query parameter
OptionalArg(c) ==
    IF frame[c].endpoint = "insertReport" THEN frame[c].args[2] ELSE frame[c].args[3]
ParameterName(c) ==
    IF frame[c].endpoint = "insertReport" THEN "&beginMark=" ELSE "&endTimeExclusive="

QueryIssued(c) ==
    frame[c].endpoint \in {"insertReport", "loadHistoryScan"} /\ IsDefined(options[c])

\* C15 as stated: the path of every issued insertReport or loadHistoryScan
\* request holds '&beginMark=<value>', respectively '&endTimeExclusive=<value>',
\* exactly when the caller provided the value, holds nothing of the parameter
\* when it did not, and never holds the parameter with an empty value.
C15_ParameterIffProvided ==
    \A c \in CallIds :
        QueryIssued(c) =>
            /\ IF IsDefined(OptionalArg(c))
               THEN PathEndsWith(c, ParameterName(c) \o Val(OptionalArg(c)))
               ELSE PathEndsWith(c, "")
            /\ ~PathEndsWith(c, ParameterName(c))

\* C15, amended: the path holds the parameter, with the value given, exactly
\* when the caller provided a value that is not the empty string; when the
\* value is omitted or empty the path holds nothing of the parameter, so the
\* parameter is never sent with an empty value.
C15_ParameterIffNonEmpty ==
    \A c \in CallIds :
        QueryIssued(c) =>
            /\ IF OptionalArg(c) \notin {Undefined, Some("")}
               THEN PathEndsWith(c, ParameterName(c) \o Val(OptionalArg(c)))
               ELSE PathEndsWith(c, "")
            /\ ~PathEndsWith(c, ParameterName(c))

C15_Witness ==
    \E c \in CallIds :
        /\ frame[c].endpoint = "insertReport"
        /\ frame[c].args = <<PipeName, Some("mark123")>>
        /\ req[c].phase = "sent"
        /\ Val(options[c]).path =
                "/v1/data/pipes/myDatabase.mySchema.myPipe/insertReport?requestId="
                    \o "000102030405060708090a0b0c0d0e0f" \o "&beginMark=mark123"

-----------------------------------------------------------------------------
(* C16 *)

\* Slice e has gained exactly one entry, at its end, and it records call c
GainsEntryOf(e, c) ==
    /\ Len(apiEndpointHistory'[e]) = Len(apiEndpointHistory[e]) + 1
    /\ SubSeq(apiEndpointHistory'[e], 1, Len(apiEndpointHistory[e])) = apiEndpointHistory[e]
    /\ apiEndpointHistory'[e][Len(apiEndpointHistory'[e])].request = c

\* C16: every step that changes a slice of the ledger is a step of one call's
\* request, appends one entry of that call to the slice of the endpoint the
\* call was made through, and leaves the other two slices as they were; no
\* step changes the connection configuration or the construction arguments,
\* whatever other calls are in flight.
C16_OnlyOwnSlice ==
    [][/\ \A e \in Endpoints :
            apiEndpointHistory'[e] # apiEndpointHistory[e] =>
                \E c \in CallIds :
                    /\ frame[c].endpoint = e
                    /\ req'[c] # req[c]
                    /\ GainsEntryOf(e, c)
                    /\ \A f \in Endpoints \ {e} :
                          apiEndpointHistory'[f] = apiEndpointHistory[f]
       /\ config' = config
       /\ domainParts' = domainParts
       /\ snowpipeAPIOptions' = snowpipeAPIOptions
      ]_vars

\* An insertReport call has completed and is recorded in its slice alone while
\* an insertFile call made before it is still in flight
C16_Witness ==
    /\ frame[1].endpoint = "insertFile" /\ pc[1] = "awaitRequest"
    /\ frame[2].endpoint = "insertReport" /\ Succeeded(2)
    /\ apiEndpointHistory =
            [e \in Endpoints |->
                IF e = "insertReport"
                THEN <<[request |-> 2,
                        response |-> [statusCode |-> 200, messageBody |-> "{}"]]>>
                ELSE <<>>]
    /\ config = [username |-> "LOADER", privateKey |-> "validKey", account |-> "ACME",
                 hostname |-> "acme.snowflakecomputing.com"]

-----------------------------------------------------------------------------
(* C17 *)

\* All the ledger entries that record call c, in whatever slice
AllEntriesOf(c) ==
    {<<e, i>> \in Endpoints \X (1..(2 * MaxCalls)) :
        i <= Len(apiEndpointHistory[e]) /\ apiEndpointHistory[e][i].request = c}

\* C17 as stated: whatever events the transport has delivered for a call's
\* request, in whatever order, the call has delivered one outcome to its
\* caller, the outcome of the first completion event, and, with recording on,
\* the ledger holds at most one entry for the call.
C17_OneOutcomeOneEntry ==
    \A c \in CallIds :
        /\ req[c].completions # <<>> =>
              /\ pc[c] = "returned"
              /\ result[c].state # "pending"
              /\ result[c] = promise[c]
        /\ RecordingOn => Cardinality(AllEntriesOf(c)) <= 1

\* The half of C17 that holds: a call's outcome is delivered by its first
\* completion event and no later event changes it.
C17_OutcomeDeliveredOnce ==
    [][\A c \in CallIds :
        /\ (req[c].completions = <<>> /\ req'[c].completions # <<>>) =>
                pc'[c] = "returned" /\ result'[c].state # "pending"
        /\ pc[c] = "returned" => pc'[c] = "returned" /\ result'[c] = result[c]
      ]_vars

-----------------------------------------------------------------------------
(* C18 *)

\* C18 as stated: once a call's request has been issued the call eventually
\* settles, however the transport finishes the exchange: the response ends,
\* the request reports an error, or the response is aborted after its headers
\* and before its end.
C18_IssuedCallSettles ==
    \A c \in CallIds : (req[c].phase # "none") ~> (pc[c] = "returned")

\* What holds: a call whose exchange is not aborted eventually settles, and a
\* call whose response was aborted before any completion event never does.
C18_SettlesUnlessAborted ==
    \A c \in CallIds :
        (req[c].phase # "none") ~> (pc[c] = "returned" \/ req[c].aborted)

C18_AbortedNeverSettles ==
    \A c \in CallIds :
        (req[c].aborted /\ req[c].completions = <<>>) => pc[c] = "awaitRequest"

====
